---- MODULE Spec2Model ----
(***************************************************************************)
(* A model of the profile-image upload endpoint of edx-platform            *)
(* (openedx/core/djangoapps/profile_images/views.py): the validation of an *)
(* uploaded file, the generation of the four thumbnails and their storage. *)
(*                                                                         *)
(* A text is a sequence of one-character strings; a character outside      *)
(* ASCII is written as its code point ("U+00E9").  A byte is a number in   *)
(* 0..255 and a hex string is a sequence of hex digits.                    *)
(***************************************************************************)
EXTENDS Integers, Sequences, FiniteSets, TLC

VARIABLES
    storage,    \* the profile-image storage: file name -> stored content
    before,     \* the storage as it was when the request arrived (history)
    request,    \* the request being answered, NoRequest when there is none
    response,   \* the response to it, NoResponse when there is none
    closed,     \* whether the view has closed the uploaded file of the request
    crop_in,    \* generate_profile_images alone: the image it has opened
    crop_out,   \* and what its center crop has made of it
    threads,    \* concurrent uploads: where each request is in the loop of
                \* generate_profile_images and in store_profile_image
    account,        \* accounts API: the stored account of AccountUser
    account_before, \* the account when the request in api_request arrived
    api_request,    \* the request to the accounts API being answered
    api_response,   \* and its response
    loop,       \* one upload followed step by step: where the request is in
                \* the loop of generate_profile_images, what it has done so far
    commerce_api,   \* commerce: the last construction of an EommerceAPI
    commerce_call   \* and the last call of create_order on it

uploadVars == <<storage, before, request, response, closed>>

cropVars == <<crop_in, crop_out>>

stepVars == <<threads>>
accountVars == <<account, account_before, api_request, api_response>>
loopVars == <<loop>>
commerceVars == <<commerce_api, commerce_call>>
vars == <<uploadVars, cropVars, stepVars, accountVars, loopVars, commerceVars>>

----------------------------------------------------------------------------
(* Module constants of views.py *)

PROFILE_IMAGE_MAX_BYTES == 1024 * 1024
PROFILE_IMAGE_MIN_BYTES == 100

DEV_MSG_FILE_TOO_LARGE == "Maximum file size exceeded."
DEV_MSG_FILE_TOO_SMALL == "Minimum file size not met."
DEV_MSG_FILE_BAD_TYPE == "Unsupported file type."
DEV_MSG_FILE_BAD_EXT == "File extension does not match data."
DEV_MSG_FILE_BAD_MIMETYPE == "Content-Type header does not match data."

HTTP_200_OK == 200
HTTP_400_BAD_REQUEST == 400
HTTP_401_UNAUTHORIZED == 401
HTTP_403_FORBIDDEN == 403

----------------------------------------------------------------------------
(* Python's str, str.lower, str.endswith and str.encode('hex') *)

AsciiUpper ==
    <<"A", "B", "C", "D", "E", "F", "G", "H", "I", "J", "K", "L", "M",
      "N", "O", "P", "Q", "R", "S", "T", "U", "V", "W", "X", "Y", "Z">>

AsciiLower ==
    <<"a", "b", "c", "d", "e", "f", "g", "h", "i", "j", "k", "l", "m",
      "n", "o", "p", "q", "r", "s", "t", "u", "v", "w", "x", "y", "z">>

AsciiOther == {".", "_", "-", "0", "1", "2", "3", "4", "5", "6", "7", "8", "9"}

Range(s) == {s[i] : i \in DOMAIN s}

IsAscii(c) == c \in Range(AsciiUpper) \cup Range(AsciiLower) \cup AsciiOther

\* str(u) of a unicode object encodes with the ascii codec: it raises
\* UnicodeEncodeError when a character is outside ASCII
StrRaises(text) == \E i \in DOMAIN text : ~IsAscii(text[i])

LowerChar(c) ==
    IF \E i \in DOMAIN AsciiUpper : AsciiUpper[i] = c
    THEN AsciiLower[CHOOSE i \in DOMAIN AsciiUpper : AsciiUpper[i] = c]
    ELSE c

Lower(text) == [i \in DOMAIN text |-> LowerChar(text[i])]

EndsWith(text, suffix) ==
    /\ Len(suffix) <= Len(text)
    /\ SubSeq(text, Len(text) - Len(suffix) + 1, Len(text)) = suffix

HexDigits ==
    <<"0", "1", "2", "3", "4", "5", "6", "7", "8", "9", "a", "b", "c", "d", "e", "f">>

RECURSIVE EncodeHex(_)
EncodeHex(bytes) ==
    IF bytes = <<>> THEN <<>>
    ELSE <<HexDigits[(Head(bytes) \div 16) + 1], HexDigits[(Head(bytes) % 16) + 1]>>
         \o EncodeHex(Tail(bytes))

\* file.read(n): the first n bytes (the file position is 0 when validation starts)
Read(image_file, n) ==
    SubSeq(image_file.content.head, 1, IF n < Len(image_file.content.head)
                                       THEN n ELSE Len(image_file.content.head))

----------------------------------------------------------------------------
(* validate_profile_image *)

image_types ==
    [jpeg |-> [extension |-> {<<".", "j", "p", "e", "g">>, <<".", "j", "p", "g">>},
               mimetypes |-> {"image/jpeg", "image/pjpeg"},
               magic |-> <<<<"f", "f", "d", "8">>>>],
     png  |-> [extension |-> {<<".", "p", "n", "g">>},
               mimetypes |-> {"image/png"},
               magic |-> <<<<"8", "9", "5", "0", "4", "e", "4", "7",
                             "0", "d", "0", "a", "1", "a", "0", "a">>>>],
     gif  |-> [extension |-> {<<".", "g", "i", "f">>},
               mimetypes |-> {"image/gif"},
               magic |-> << <<"4", "7", "4", "9", "4", "6", "3", "8", "3", "9", "6", "1">>,
                            <<"4", "7", "4", "9", "4", "6", "3", "8", "3", "7", "6", "1">> >>]]

Return(v) == [tag |-> "return", value |-> v]
Raise(exc, msg) == [tag |-> "raise", exc |-> exc, message |-> msg]

\* the list comprehension of line 74, as the set of its elements
MatchingFileTypes(filename) ==
    {ft \in DOMAIN image_types :
        \E ext \in image_types[ft].extension : EndsWith(filename, ext)}

\* lines 79-89: filetype is filetype[0], the one element of the list
ValidateTypeChecks(image_file, content_type, filetype) ==
    LET headers == image_types[filetype].magic IN
    IF content_type \notin image_types[filetype].mimetypes
    THEN Raise("InvalidProfileImage", DEV_MSG_FILE_BAD_MIMETYPE)
    ELSE IF EncodeHex(Read(image_file, Len(headers[1]) \div 2)) \notin Range(headers)
    THEN Raise("InvalidProfileImage", DEV_MSG_FILE_BAD_EXT)
    ELSE Return(filetype)

\* lines 72-77
ValidateExtension(image_file, content_type) ==
    IF StrRaises(image_file.name)
    THEN Raise("UnicodeEncodeError", "")
    ELSE LET filename == Lower(image_file.name)
             filetype == MatchingFileTypes(filename)
         IN IF filetype = {}
            THEN Raise("InvalidProfileImage", DEV_MSG_FILE_BAD_TYPE)
            ELSE ValidateTypeChecks(image_file, content_type,
                                    CHOOSE ft \in filetype : TRUE)

\* the size limits taken as exclusive
validate_profile_image_ExclusiveLimits(image_file, content_type) ==
    IF image_file.size >= PROFILE_IMAGE_MAX_BYTES
    THEN Raise("InvalidProfileImage", DEV_MSG_FILE_TOO_LARGE)
    ELSE IF image_file.size <= PROFILE_IMAGE_MIN_BYTES
    THEN Raise("InvalidProfileImage", DEV_MSG_FILE_TOO_SMALL)
    ELSE ValidateExtension(image_file, content_type)

validate_profile_image(image_file, content_type) ==
    IF image_file.size > PROFILE_IMAGE_MAX_BYTES
    THEN Raise("InvalidProfileImage", DEV_MSG_FILE_TOO_LARGE)
    ELSE IF image_file.size < PROFILE_IMAGE_MIN_BYTES
    THEN Raise("InvalidProfileImage", DEV_MSG_FILE_TOO_SMALL)
    ELSE ValidateExtension(image_file, content_type)

----------------------------------------------------------------------------
(* PIL: Image.open, Image.crop, Image.resize, Image.save *)

NoImage == [decodable |-> FALSE]

\* Image.open reads the image the file holds; it raises IOError when the
\* file holds none
ImageOpenRaises(image_file) == image_file.content.image = NoImage

ImageOpen(image_file) ==
    [size |-> image_file.content.image.size, pix |-> image_file.content.image.pix]

\* the box is taken as (left, upper, width, height)
CropBox_WidthHeight(width, height, side) ==
    <<(width - side) \div 2, (height - side) \div 2, side, side>>

\* the crop box of line 139; Python 2's / on ints is floor division
CropBox(width, height, side) ==
    <<(width - side) \div 2, (height - side) \div 2,
      (width + side) \div 2, (height + side) \div 2>>

\* Image.crop(box): the region from (left, upper) to (right, lower)
Crop(image_obj, box) ==
    [size |-> <<box[3] - box[1], box[4] - box[2]>>, pix |-> image_obj.pix]

\* lines 136-139
CenterCrop(image_obj) ==
    LET width == image_obj.size[1]
        height == image_obj.size[2]
    IN IF width # height
       THEN LET side == IF width < height THEN width ELSE height
            IN Crop(image_obj, CropBox(width, height, side))
       ELSE image_obj

NoBox == <<>>

\* lines 136-139: the box handed to Image.crop, NoBox when crop is not called
CenterCropBox(image_obj) ==
    LET width == image_obj.size[1]
        height == image_obj.size[2]
    IN IF width # height
       THEN LET side == IF width < height THEN width ELSE height
            IN CropBox(width, height, side)
       ELSE NoBox

\* Image.thumbnail((side, side)) in place of resize: it keeps the proportions
\* and never enlarges
get_scaled_image_file_Thumbnail(image_obj, side) ==
    LET width == image_obj.size[1]
        height == image_obj.size[2]
        longest == IF width >= height THEN width ELSE height
    IN [format |-> "JPEG",
        size |-> IF longest <= side THEN image_obj.size
                 ELSE <<(width * side) \div longest, (height * side) \div longest>>,
        pix |-> image_obj.pix]

\* resize((side, side)) and save(format='JPEG') into a ContentFile
get_scaled_image_file(image_obj, side) ==
    [format |-> "JPEG", size |-> <<side, side>>, pix |-> image_obj.pix]

----------------------------------------------------------------------------
(* The storage: django.core.files.storage.FileSystemStorage *)

Usernames == {"alice", "bob"}

\* hashlib.md5(username).hexdigest()
md5hexdigest(username) ==
    CASE username = "alice" -> "6384e2b2184bcbf58eccf10ca7a6563c"
      [] username = "bob" -> "9f9d51bc70ef21ca5c14f307980a29d8"
      [] username = "carol" -> "a9a0198010a6073db96434f6cc5f22a8"

\* '{}_profile_{}.jpeg'.format(...): the name as the sequence of its pieces
name_profile_image(username, side) ==
    <<md5hexdigest(username), "_profile_", ToString(side), ".jpeg">>

EmptyStorage == [n \in {} |-> n]

StorageExists(st, name) == name \in DOMAIN st

StorageDelete(st, name) == [n \in DOMAIN st \ {name} |-> st[n]]

\* Storage.get_available_name: a name that is taken gets "_1", "_2", ...
\* between its root and its extension until it is free
RECURSIVE AvailableName(_, _, _)
AvailableName(st, name, count) ==
    LET candidate == IF count = 0 THEN name
                     ELSE <<name[1], name[2], name[3], "_" \o ToString(count), name[4]>>
    IN IF candidate \in DOMAIN st THEN AvailableName(st, name, count + 1)
       ELSE candidate

\* Storage.save(name, content): stores under an available name, returns it
StorageSave(st, name, content) ==
    LET path == AvailableName(st, name, 0)
    IN [storage |-> [n \in DOMAIN st \cup {path} |-> IF n = path THEN content ELSE st[n]],
        path |-> path]

\* the stored file is not deleted before the new one is saved
store_profile_image_NoDelete(image_file, side, username, st) ==
    StorageSave(st, name_profile_image(username, side), image_file)

store_profile_image(image_file, side, username, st) ==
    LET dest_name == name_profile_image(username, side)
        cleared == IF StorageExists(st, dest_name) THEN StorageDelete(st, dest_name) ELSE st
    IN StorageSave(cleared, dest_name, image_file)

ThumbnailSides == <<30, 50, 120, 500>>

\* the loop of lines 141-144, from the i-th side on
RECURSIVE StoreScaled(_, _, _, _)
StoreScaled(image_obj, username, st, i) ==
    IF i > Len(ThumbnailSides) THEN st
    ELSE LET side == ThumbnailSides[i]
             scaled_image_file == get_scaled_image_file(image_obj, side)
         IN StoreScaled(image_obj, username,
                        store_profile_image(scaled_image_file, side, username, st).storage,
                        i + 1)

generate_profile_images(image_file, username, st) ==
    IF ImageOpenRaises(image_file)
    THEN [raised |-> TRUE, storage |-> st]
    ELSE [raised |-> FALSE,
          storage |-> StoreScaled(CenterCrop(ImageOpen(image_file)), username, st, 1)]

----------------------------------------------------------------------------
(* ProfileImageUploadView *)

NoData == [none |-> TRUE]

Response(data, status) == [status |-> status, data |-> data]

\* request.FILES: the parts of the multipart body that are file uploads
FILES(req) ==
    IF req.body.file.kind = "file" THEN [file |-> req.body.file] ELSE [k \in {} |-> k]

\* the file is closed by a close() at the end of the block: a return or an
\* exception inside the block skips it
closing_AtEndOnly(exit) == exit = "end"

\* line 169, contextlib.closing: the file is closed when the block is left,
\* by reaching its end ("end"), by a return ("return") or by an exception
\* ("raise")
closing(exit) == exit \in {"end", "return", "raise"}

\* the thumbnails are generated before the file is validated
UploadedFileBlock_StoreFirst(uploaded_file, username, st) ==
    LET valid == validate_profile_image(uploaded_file, uploaded_file.content_type)
        generated == generate_profile_images(uploaded_file, username, st)
    IN IF generated.raised
       THEN [response |-> Response(NoData, 500), storage |-> generated.storage,
             closed |-> closing("raise")]
       ELSE IF valid.tag = "raise" /\ valid.exc = "InvalidProfileImage"
       THEN [response |-> Response([developer_message |-> valid.message,
                                    user_message |-> "None"],
                                   HTTP_400_BAD_REQUEST),
             storage |-> generated.storage, closed |-> closing("return")]
       ELSE IF valid.tag = "raise"
       THEN [response |-> Response(NoData, 500), storage |-> generated.storage,
             closed |-> closing("raise")]
       ELSE [response |-> Response([status |-> "success"], HTTP_200_OK),
             storage |-> generated.storage, closed |-> closing("end")]

\* lines 169-190: the body of "with closing(uploaded_file)" and the response
\* after it; an exception that the view does not catch is answered 500
UploadedFileBlock(uploaded_file, username, st) ==
    LET valid == validate_profile_image(uploaded_file, uploaded_file.content_type)
        generated == generate_profile_images(uploaded_file, username, st)
    IN IF valid.tag = "raise" /\ valid.exc = "InvalidProfileImage"
       THEN [response |-> Response([developer_message |-> valid.message,
                                    user_message |-> "None"],
                                   HTTP_400_BAD_REQUEST),
             storage |-> st, closed |-> closing("return")]
       ELSE IF valid.tag = "raise"
       THEN [response |-> Response(NoData, 500), storage |-> st,
             closed |-> closing("raise")]
       ELSE IF generated.raised
       THEN [response |-> Response(NoData, 500), storage |-> generated.storage,
             closed |-> closing("raise")]
       ELSE [response |-> Response([status |-> "success"], HTTP_200_OK),
             storage |-> generated.storage, closed |-> closing("end")]

\* staff is not exempted
Forbidden_StaffToo(req, username) == req.user.username # username

\* line 159: the requester is neither the user of the URL nor staff
Forbidden(req, username) == req.user.username # username /\ ~req.user.is_staff

\* the presence of 'file' is not checked: request.FILES['file'] raises
post_NoFileCheck(req, username, st) ==
    IF Forbidden(req, username)
    THEN [response |-> Response(NoData, HTTP_403_FORBIDDEN), storage |-> st,
          closed |-> FALSE]
    ELSE IF "file" \notin DOMAIN FILES(req)
    THEN [response |-> Response(NoData, 500), storage |-> st,
          closed |-> FALSE]
    ELSE UploadedFileBlock(FILES(req).file, username, st)

post(req, username, st) ==
    IF Forbidden(req, username)
    THEN [response |-> Response(NoData, HTTP_403_FORBIDDEN), storage |-> st,
          closed |-> FALSE]
    ELSE IF "file" \notin DOMAIN FILES(req)
    THEN [response |-> Response(NoData, HTTP_400_BAD_REQUEST), storage |-> st,
          closed |-> FALSE]
    ELSE UploadedFileBlock(FILES(req).file, username, st)

\* the handler of the method is looked up before the permission is checked
dispatch_MethodFirst(req, st) ==
    IF req.method # "POST"
    THEN [response |-> Response(NoData, 405), storage |-> st,
          closed |-> FALSE]
    ELSE IF ~req.user.is_authenticated
    THEN [response |-> Response(NoData, HTTP_401_UNAUTHORIZED), storage |-> st,
          closed |-> FALSE]
    ELSE post(req, req.username, st)

\* APIView.dispatch with permission_classes = (IsAuthenticated,): the
\* permission is checked first, then the handler of the method is looked
\* up; the view defines post alone
dispatch(req, st) ==
    IF ~req.user.is_authenticated
    THEN [response |-> Response(NoData, HTTP_401_UNAUTHORIZED), storage |-> st,
          closed |-> FALSE]
    ELSE IF req.method = "POST"
    THEN post(req, req.username, st)
    ELSE [response |-> Response(NoData, 405), storage |-> st,
          closed |-> FALSE]

----------------------------------------------------------------------------
(* The clients and what they send *)

AnonymousUser == [username |-> "", is_staff |-> FALSE, is_authenticated |-> FALSE]

Users ==
    {[username |-> "alice", is_staff |-> FALSE, is_authenticated |-> TRUE],
     [username |-> "bob", is_staff |-> FALSE, is_authenticated |-> TRUE],
     [username |-> "carol", is_staff |-> TRUE, is_authenticated |-> TRUE]}

Clients == Users \cup {AnonymousUser}

\* the sizes tried: those within SizeMargin bytes of a limit
SizeMargin == 1

FileSizes ==
    {PROFILE_IMAGE_MIN_BYTES + d : d \in -SizeMargin .. SizeMargin}
    \cup {PROFILE_IMAGE_MAX_BYTES + d : d \in -SizeMargin .. SizeMargin}

FileNames ==
    {<<"a", ".", "j", "p", "e", "g">>,
     <<"a", ".", "j", "p", "g">>,
     <<"A", ".", "J", "P", "G">>,
     <<"a", ".", "p", "n", "g">>,
     <<"a", ".", "G", "i", "f">>,
     <<"a", ".", "b", "m", "p">>,
     <<"j", "p", "g">>,
     <<"U+00E9", ".", "j", "p", "g">>,
     <<"U+00E9", ".", "b", "m", "p">>}

ContentTypes == {"image/jpeg", "image/pjpeg", "image/png", "image/gif"}

JpegHead == <<255, 216, 255, 224, 0, 16, 74, 70>>
PngHead == <<137, 80, 78, 71, 13, 10, 26, 10>>
Gif89aHead == <<71, 73, 70, 56, 57, 97, 1, 0>>
Gif87aHead == <<71, 73, 70, 56, 55, 97, 1, 0>>
BmpHead == <<66, 77, 54, 132, 3, 0, 0, 0>>

\* what a file can hold: an image in one of the formats PIL reads, or
\* bytes that start like a JPEG and are no image
FileContents ==
    {[head |-> JpegHead, image |-> [size |-> <<320, 240>>, pix |-> "green"]],
     [head |-> JpegHead, image |-> [size |-> <<1000, 999>>, pix |-> "red"]],
     [head |-> PngHead, image |-> [size |-> <<1, 10>>, pix |-> "green"]],
     [head |-> Gif89aHead, image |-> [size |-> <<10, 10>>, pix |-> "red"]],
     [head |-> Gif87aHead, image |-> [size |-> <<1000, 1000>>, pix |-> "green"]],
     [head |-> BmpHead, image |-> [size |-> <<320, 240>>, pix |-> "red"]],
     [head |-> JpegHead, image |-> NoImage]}

UploadedFiles ==
    {[kind |-> "file", size |-> s, name |-> n, content_type |-> t, content |-> c] :
        s \in FileSizes, n \in FileNames, t \in ContentTypes, c \in FileContents}

NoPart == [kind |-> "absent"]
FormField == [kind |-> "field", value |-> "not a file"]

Bodies == {[file |-> p] : p \in UploadedFiles \cup {NoPart, FormField}}

NoRequest == [method |-> "NONE"]
NoResponse == [status |-> 0, data |-> NoData]

----------------------------------------------------------------------------
(* The state machine *)

\* no request has come to the upload endpoint
UploadInit ==
    /\ storage = EmptyStorage
    /\ before = EmptyStorage
    /\ request = NoRequest
    /\ response = NoResponse
    /\ closed = FALSE

NoImageObj == [size |-> <<0, 0>>, pix |-> "none"]
NoCrop == [box |-> NoBox, image |-> NoImageObj]

\* generate_profile_images has not been called
CropInit ==
    /\ crop_in = NoImageObj
    /\ crop_out = NoCrop

\* the variables that the upload endpoint, handling one request at a time,
\* leaves alone
notUploadVars == <<cropVars, stepVars, accountVars, loopVars, commerceVars>>

Workers == {1, 2}

\* no EommerceAPI has been constructed
CommerceInit ==
    /\ commerce_api = [state |-> "none"]
    /\ commerce_call = [state |-> "none"]

NoScaled == [format |-> "none", size |-> <<0, 0>>, pix |-> "none"]

\* no upload is followed step by step
LoopInit == loop = [pc |-> "idle", i |-> 0, scaled |-> NoScaled, log |-> <<>>]

\* no request is inside generate_profile_images
StepInit == threads = [w \in Workers |-> [pc |-> "idle", i |-> 0]]

----------------------------------------------------------------------------
(* The accounts API: GET and PATCH of accounts_api for a username, and the *)
(* confirmation of an email change.  Its requests carry                    *)
(* application/merge-patch+json.                                           *)

AccountUser == "alice"
UnknownUser == "does_not_exist"

PRIVATE_VISIBILITY == "private"
ALL_USERS_VISIBILITY == "all_users"
NoPreference == "unset"

OldEmail == <<"robot", "@", "example.com">>
NewEmail == <<"newemail", "@", "example.com">>

\* the account that UserFactory and create_mock_profile make
InitialAccount ==
    [name |-> "Robot Test", gender |-> "m", goals |-> "World domination",
     email |-> OldEmail, old_names |-> <<>>, pending |-> {},
     visibility |-> NoPreference]

\* all the fields of the account
FullAccount(acct) ==
    [username |-> AccountUser, name |-> acct.name, country |-> "US",
     language |-> "", gender |-> acct.gender, year_of_birth |-> 1900,
     level_of_education |-> "m", goals |-> acct.goals,
     mailing_address |-> "Park Ave", email |-> acct.email,
     date_joined |-> "date_joined"]

\* the fields that are shown to all users
ShareableAccount ==
    [username |-> AccountUser, country |-> "US", profile_image |-> "None",
     time_zone |-> "None", languages |-> "None", bio |-> "None"]

\* the fields that are always shown
PrivateAccount == [username |-> AccountUser, profile_image |-> "None"]

\* the user's preference, else the configured default_visibility
AccountVisibility(acct, default_visibility) ==
    IF acct.visibility = NoPreference THEN default_visibility ELSE acct.visibility

\* every logged-in user is given the full account
VisibleAccount_AnyUser(user, view, visibility, acct) ==
    IF view # "shared"
    THEN FullAccount(acct)
    ELSE IF visibility = ALL_USERS_VISIBILITY THEN ShareableAccount
    ELSE PrivateAccount

\* what a logged-in user is shown of the account
VisibleAccount(user, view, visibility, acct) ==
    IF (user.username = AccountUser \/ user.is_staff) /\ view # "shared"
    THEN FullAccount(acct)
    ELSE IF visibility = ALL_USERS_VISIBILITY THEN ShareableAccount
    ELSE PrivateAccount

\* GET
AccountView_get(req, acct) ==
    IF ~req.user.is_authenticated THEN Response(NoData, HTTP_401_UNAUTHORIZED)
    ELSE IF req.username # AccountUser THEN Response(NoData, 404)
    ELSE Response(VisibleAccount(req.user, req.view,
                                 AccountVisibility(acct, req.default_visibility),
                                 acct),
                  HTTP_200_OK)

\* staff may update any account
CanPatch_StaffToo(user, username) ==
    username = AccountUser /\ (user.username = username \/ user.is_staff)

\* only the user of an account updates it
CanPatch(user, username) == username = AccountUser /\ user.username = username

\* the first read-only field alone is reported
ReadOnlyNamed_UsernameOnly(data) == DOMAIN data \cap {"username"}

\* the read-only fields that an update names
ReadOnlyNamed(data) == DOMAIN data \cap {"username", "date_joined"}

ReadOnlyErrors(data) ==
    [f \in ReadOnlyNamed(data) |->
        [developer_message |-> "This field is not editable via this API",
         user_message |-> <<"Field '", f, "' cannot be edited.">>]]

\* validate_new_email: an address, and not the one the user has
ValidNewEmail(acct, email) ==
    /\ Len(email) = 3
    /\ email[2] = "@"
    /\ email # acct.email

EmailErrors ==
    [email |->
        [developer_message |->
             "Error thrown from validate_new_email: 'Valid e-mail address required.'",
         user_message |-> "Valid e-mail address required."]]

\* every change of the name adds a list of the three pieces to old_names
NameChange_Overwrite(acct, name, requester) ==
    [acct EXCEPT
        !.name = name,
        !.old_names = <<<<acct.name,
                          <<"Name change requested through account API by ", requester>>,
                          "datetime.now">>>>]

\* the name is replaced and the change is recorded in old_names
NameChange(acct, name, requester) ==
    [acct EXCEPT
        !.name = name,
        !.old_names = Append(acct.old_names,
                             <<acct.name,
                               <<"Name change requested through account API by ", requester>>,
                               "datetime.now">>)]

\* the new email replaces the old one at once
EmailChangeRequest_AtOnce(acct, email) == [acct EXCEPT !.email = email]

\* do_email_change_request: the one PendingEmailChange of the user holds the
\* new email and a fresh activation key; the email itself stays
EmailChangeRequest(acct, email) ==
    [acct EXCEPT !.pending = {[user |-> AccountUser, new_email |-> email,
                               activation_key |-> <<"key">> \o email]}]

\* the update of the fields that data names
UpdateAccount(user, data, acct) ==
    LET with_gender == IF "gender" \in DOMAIN data
                       THEN [acct EXCEPT !.gender = data.gender] ELSE acct
        with_goals == IF "goals" \in DOMAIN data
                      THEN [with_gender EXCEPT !.goals = data.goals] ELSE with_gender
        with_name == IF "name" \in DOMAIN data
                     THEN NameChange(with_goals, data.name, user.username)
                     ELSE with_goals
    IN IF "email" \in DOMAIN data
       THEN EmailChangeRequest(with_name, data.email)
       ELSE with_name

\* PATCH
AccountView_patch(req, acct) ==
    IF ~req.user.is_authenticated
    THEN [response |-> Response(NoData, HTTP_401_UNAUTHORIZED), account |-> acct]
    ELSE IF ~CanPatch(req.user, req.username)
    THEN [response |-> Response(NoData, 404), account |-> acct]
    ELSE IF ReadOnlyNamed(req.data) # {}
    THEN [response |-> Response([field_errors |-> ReadOnlyErrors(req.data)],
                                HTTP_400_BAD_REQUEST),
          account |-> acct]
    ELSE IF "email" \in DOMAIN req.data /\ ~ValidNewEmail(acct, req.data.email)
    THEN [response |-> Response([field_errors |-> EmailErrors], HTTP_400_BAD_REQUEST),
          account |-> acct]
    ELSE [response |-> Response(NoData, 204),
          account |-> UpdateAccount(req.user, req.data, acct)]

\* student.views.confirm_email_change: the pending change with this key,
\* when there is one, becomes the email of the user and is deleted
confirm_email_change(key, acct) ==
    LET found == {pec \in acct.pending : pec.activation_key = key}
    IN IF found = {} THEN acct
       ELSE [acct EXCEPT !.email = (CHOOSE pec \in found : TRUE).new_email,
                         !.pending = acct.pending \ found]

EmptyData == [k \in {} |-> k]

\* the updates that are sent
PatchData ==
    {EmptyData,
     [gender |-> "f"],
     [username |-> "will_error", gender |-> "f"],
     [date_joined |-> "will_error", gender |-> "f"],
     [username |-> "will_error", date_joined |-> "xx"],
     [name |-> "Mickey Mouse"],
     [name |-> "Donald Duck"],
     [name |-> "Mickey Mouse", username |-> "will_error"],
     [email |-> NewEmail, goals |-> "change my email"],
     [email |-> <<"not_an_email">>],
     [email |-> <<>>, gender |-> "f"]}

ActivationKeys == {<<"key">> \o NewEmail, <<"key", "expired">>}

\* the number of name changes that are followed
MaxNameChanges == 3

\* no request has come to the accounts API
AccountInit ==
    /\ account = InitialAccount
    /\ account_before = InitialAccount
    /\ api_request = NoRequest
    /\ api_response = NoResponse

notAccountVars == <<uploadVars, cropVars, stepVars, loopVars, commerceVars>>

AccountGet ==
    /\ api_request = NoRequest
    /\ \E user \in Clients, username \in {AccountUser, UnknownUser},
          view \in {"default", "shared"},
          default_visibility \in {PRIVATE_VISIBILITY, ALL_USERS_VISIBILITY} :
        LET req == [method |-> "GET", user |-> user, username |-> username,
                    view |-> view, default_visibility |-> default_visibility]
        IN /\ api_request' = req
           /\ api_response' = AccountView_get(req, account)
    /\ account_before' = account
    /\ UNCHANGED <<account, notAccountVars>>

AccountPatch ==
    /\ api_request = NoRequest
    /\ \E user \in Clients, username \in {AccountUser, UnknownUser}, data \in PatchData :
        LET req == [method |-> "PATCH", user |-> user, username |-> username,
                    data |-> data]
            answered == AccountView_patch(req, account)
        IN /\ "name" \in DOMAIN data => Len(account.old_names) < MaxNameChanges
           /\ api_request' = req
           /\ api_response' = answered.response
           /\ account' = answered.account
    /\ account_before' = account
    /\ UNCHANGED notAccountVars

ConfirmEmailChange ==
    /\ api_request = NoRequest
    /\ \E key \in ActivationKeys :
        /\ api_request' = [method |-> "CONFIRM", key |-> key]
        /\ account' = confirm_email_change(key, account)
    /\ api_response' = Response(NoData, HTTP_200_OK)
    /\ account_before' = account
    /\ UNCHANGED notAccountVars

\* UserPreference.set_preference(user, ACCOUNT_VISIBILITY_PREF_KEY, value)
SetPreference ==
    /\ api_request = NoRequest
    /\ \E value \in {PRIVATE_VISIBILITY, ALL_USERS_VISIBILITY} :
        /\ value # account.visibility
        /\ account' = [account EXCEPT !.visibility = value]
        /\ account_before' = account'
    /\ UNCHANGED <<api_request, api_response, notAccountVars>>

\* the response has gone to the client
AccountDeliver ==
    /\ api_request # NoRequest
    /\ api_request' = NoRequest
    /\ api_response' = NoResponse
    /\ account_before' = account
    /\ UNCHANGED <<account, notAccountVars>>

AccountsNext ==
    AccountGet \/ AccountPatch \/ ConfirmEmailChange \/ SetPreference \/ AccountDeliver

Init ==
    /\ UploadInit
    /\ CropInit
    /\ StepInit
    /\ AccountInit
    /\ LoopInit
    /\ CommerceInit

AccountsSpec == Init /\ [][AccountsNext]_vars

\* a client POSTs to the upload endpoint of username
Post ==
    /\ request = NoRequest
    /\ \E user \in Clients, username \in Usernames, body \in Bodies :
        LET req == [method |-> "POST", user |-> user, username |-> username,
                    body |-> body]
            answered == dispatch(req, storage)
        IN /\ request' = req
           /\ before' = storage
           /\ response' = answered.response
           /\ storage' = answered.storage
           /\ closed' = answered.closed
           /\ UNCHANGED notUploadVars

\* a client GETs the upload endpoint of username
Get ==
    /\ request = NoRequest
    /\ \E user \in Clients, username \in Usernames :
        LET req == [method |-> "GET", user |-> user, username |-> username,
                    body |-> [file |-> NoPart]]
            answered == dispatch(req, storage)
        IN /\ request' = req
           /\ before' = storage
           /\ response' = answered.response
           /\ storage' = answered.storage
           /\ closed' = answered.closed
           /\ UNCHANGED notUploadVars

\* the client has its response; the next request can come
Deliver ==
    /\ request # NoRequest
    /\ request' = NoRequest
    /\ response' = NoResponse
    /\ closed' = FALSE
    /\ before' = storage
    /\ UNCHANGED storage
    /\ UNCHANGED notUploadVars

Next == Post \/ Get \/ Deliver

Spec == Init /\ [][Next]_vars

----------------------------------------------------------------------------
(* generate_profile_images alone, on images of every size up to MaxDim *)

MaxDim == 12

notCropVars == <<uploadVars, stepVars, accountVars, loopVars, commerceVars>>

\* Image.open: an image of width x height pixels
OpenImage ==
    /\ crop_in = NoImageObj
    /\ \E width \in 1 .. MaxDim, height \in 1 .. MaxDim :
        crop_in' = [size |-> <<width, height>>, pix |-> "green"]
    /\ UNCHANGED <<crop_out, notCropVars>>

\* lines 136-139: the center crop
CropImage ==
    /\ crop_in # NoImageObj
    /\ crop_out = NoCrop
    /\ crop_out' = [box |-> CenterCropBox(crop_in), image |-> CenterCrop(crop_in)]
    /\ UNCHANGED <<crop_in, notCropVars>>

\* the call is over
CropDone ==
    /\ crop_out # NoCrop
    /\ crop_in' = NoImageObj
    /\ crop_out' = NoCrop
    /\ UNCHANGED notCropVars

CropNext == OpenImage \/ CropImage \/ CropDone

CropSpec == Init /\ [][CropNext]_vars

----------------------------------------------------------------------------
(* Two requests for the same username inside generate_profile_images at    *)
(* once: every call on the storage is one step, and the steps of the two   *)
(* requests interleave in any order.  FileSystemStorage makes each call    *)
(* safe on its own: delete ignores a file that is already gone, and save   *)
(* creates its file with O_EXCL and takes the next available name when the *)
(* name has been taken meanwhile.                                          *)

StepUsername == "alice"

\* the valid images the two requests upload
StepUpload(w) ==
    IF w = 1
    THEN [content |-> [head |-> JpegHead, image |-> [size |-> <<320, 240>>, pix |-> "green"]]]
    ELSE [content |-> [head |-> JpegHead, image |-> [size |-> <<1000, 999>>, pix |-> "red"]]]

\* the thumbnails of an upload that was stored before the two requests
StepEarlierUpload ==
    [content |-> [head |-> PngHead, image |-> [size |-> <<10, 10>>, pix |-> "blue"]]]

notStepVars == <<before, request, response, closed, cropVars, accountVars, loopVars, commerceVars>>

StepStart ==
    /\ storage \in {EmptyStorage,
                    generate_profile_images(StepEarlierUpload, StepUsername, EmptyStorage).storage}
    /\ before = EmptyStorage
    /\ request = NoRequest
    /\ response = NoResponse
    /\ closed = FALSE
    /\ CropInit
    /\ StepInit
    /\ AccountInit
    /\ LoopInit
    /\ CommerceInit

\* lines 133-139: the request of worker w opens and crops its image and
\* enters the loop over the sides
EnterLoop(w) ==
    /\ threads[w].pc = "idle"
    /\ ~ImageOpenRaises(StepUpload(w))
    /\ threads' = [threads EXCEPT ![w] = [pc |-> "exists", i |-> 1]]
    /\ UNCHANGED <<storage, notStepVars>>

\* line 124: storage.exists(dest_name)
ExistsStep(w) ==
    /\ threads[w].pc = "exists"
    /\ LET dest_name == name_profile_image(StepUsername, ThumbnailSides[threads[w].i])
       IN threads' = [threads EXCEPT ![w].pc =
                         IF StorageExists(storage, dest_name) THEN "delete" ELSE "save"]
    /\ UNCHANGED <<storage, notStepVars>>

\* line 125: storage.delete(dest_name)
DeleteStep(w) ==
    /\ threads[w].pc = "delete"
    /\ LET dest_name == name_profile_image(StepUsername, ThumbnailSides[threads[w].i])
       IN storage' = StorageDelete(storage, dest_name)
    /\ threads' = [threads EXCEPT ![w].pc = "save"]
    /\ UNCHANGED notStepVars

\* line 126: storage.save(dest_name, image_file), then the next side of the
\* loop of lines 141-144
SaveStep(w) ==
    /\ threads[w].pc = "save"
    /\ LET side == ThumbnailSides[threads[w].i]
           dest_name == name_profile_image(StepUsername, side)
           scaled_image_file ==
               get_scaled_image_file(CenterCrop(ImageOpen(StepUpload(w))), side)
       IN storage' = StorageSave(storage, dest_name, scaled_image_file).storage
    /\ threads' = [threads EXCEPT ![w] =
                      IF threads[w].i = Len(ThumbnailSides)
                      THEN [pc |-> "done", i |-> 0]
                      ELSE [pc |-> "exists", i |-> threads[w].i + 1]]
    /\ UNCHANGED notStepVars

StepNext ==
    \E w \in Workers : EnterLoop(w) \/ ExistsStep(w) \/ DeleteStep(w) \/ SaveStep(w)

StepSpec == StepStart /\ [][StepNext]_vars

----------------------------------------------------------------------------
(* One upload at a time, followed through the loop of lines 141-144 step   *)
(* by step.  Scaling (PIL) and every call on the storage can raise; an     *)
(* exception leaves generate_profile_images and the view, and the request  *)
(* is answered 500.  loop.log is the history of the steps that were done.  *)

\* the valid uploads that are followed, all by alice for herself
LoopUploads ==
    {f \in UploadedFiles :
        /\ f.size = PROFILE_IMAGE_MIN_BYTES
        /\ f.name = <<"a", ".", "j", "p", "g">>
        /\ f.content_type = "image/jpeg"
        /\ validate_profile_image(f, f.content_type).tag = "return"
        /\ ~ImageOpenRaises(f)}

notLoopVars == <<cropVars, stepVars, accountVars, commerceVars>>

\* the success response is sent after the first size was stored
LoopAfterStore_RespondEarly(i) == [pc |-> "respond", i |-> 0]

\* lines 141 and 190: the next side of the loop, and after the last one the
\* end of generate_profile_images and the success response
LoopAfterStore(i) ==
    IF i = Len(ThumbnailSides)
    THEN [pc |-> "respond", i |-> 0]
    ELSE [pc |-> "generate", i |-> i + 1]

\* lines 159-184: the request passes the checks and the validation, and
\* generate_profile_images opens and crops the image
BeginUpload ==
    /\ request = NoRequest
    /\ loop.pc = "idle"
    /\ \E f \in LoopUploads :
        LET user == CHOOSE u \in Users : u.username = "alice"
            req == [method |-> "POST", user |-> user, username |-> "alice",
                    body |-> [file |-> f]]
        IN /\ ~Forbidden(req, req.username)
           /\ "file" \in DOMAIN FILES(req)
           /\ request' = req
    /\ before' = storage
    /\ loop' = [pc |-> "generate", i |-> 1, scaled |-> NoScaled, log |-> <<>>]
    /\ UNCHANGED <<storage, response, closed, notLoopVars>>

\* line 142: get_scaled_image_file, which returns the scaled file or raises
GenerateStep ==
    /\ loop.pc = "generate"
    /\ LET side == ThumbnailSides[loop.i]
           image_obj == CenterCrop(ImageOpen(request.body.file))
       IN \/ loop' = [loop EXCEPT !.pc = "store",
                                  !.scaled = get_scaled_image_file(image_obj, side),
                                  !.log = Append(loop.log, <<"generate", side>>)]
          \/ loop' = [loop EXCEPT !.pc = "raised"]
    /\ UNCHANGED <<uploadVars, notLoopVars>>

\* line 144: store_profile_image, which stores the file, or raises in
\* storage.exists or storage.delete (nothing has changed) or in storage.save
\* (the file that was there has been deleted)
StoreStep ==
    /\ loop.pc = "store"
    /\ LET side == ThumbnailSides[loop.i]
           dest_name == name_profile_image(request.username, side)
           after == LoopAfterStore(loop.i)
       IN \/ /\ storage' = store_profile_image(loop.scaled, side, request.username,
                                               storage).storage
             /\ loop' = [loop EXCEPT !.pc = after.pc, !.i = after.i,
                                     !.scaled = NoScaled,
                                     !.log = Append(loop.log, <<"store", side>>)]
          \/ /\ storage' \in {storage, StorageDelete(storage, dest_name)}
             /\ loop' = [loop EXCEPT !.pc = "raised"]
    /\ UNCHANGED <<before, request, response, closed, notLoopVars>>

\* lines 169 and 190: the end of the with block and the success response
RespondSuccess ==
    /\ loop.pc = "respond"
    /\ response' = Response([status |-> "success"], HTTP_200_OK)
    /\ closed' = closing("end")
    /\ loop' = [loop EXCEPT !.pc = "done"]
    /\ UNCHANGED <<storage, before, request, notLoopVars>>

\* the exception leaves the with block and the view: the answer is 500
RespondError ==
    /\ loop.pc = "raised"
    /\ response' = Response(NoData, 500)
    /\ closed' = closing("raise")
    /\ loop' = [loop EXCEPT !.pc = "failed"]
    /\ UNCHANGED <<storage, before, request, notLoopVars>>

\* the response has gone to the client
LoopDeliver ==
    /\ loop.pc \in {"done", "failed"}
    /\ request' = NoRequest
    /\ response' = NoResponse
    /\ closed' = FALSE
    /\ before' = storage
    /\ loop' = [pc |-> "idle", i |-> 0, scaled |-> NoScaled, log |-> <<>>]
    /\ UNCHANGED <<storage, notLoopVars>>

LoopNext ==
    \/ BeginUpload
    \/ GenerateStep
    \/ StoreStep
    \/ RespondSuccess
    \/ RespondError
    \/ LoopDeliver

LoopSpec == Init /\ [][LoopNext]_vars

----------------------------------------------------------------------------
(* lms/djangoapps/commerce/api.py: EommerceAPI.  A Python value that can   *)
(* be None is a record with is_none; a text is a sequence of characters; a *)
(* JSON document is the sequence of its lexemes.                           *)

None == [is_none |-> TRUE, value |-> <<>>]
Some(v) == [is_none |-> FALSE, value |-> v]

\* None where a number is expected
NoNumber == [is_none |-> TRUE, value |-> 0]

\* the truth value of an optional text: None and '' are false
Truthy(v) == ~v.is_none /\ v.value # <<>>

\* a or b, of texts
Or(a, b) == IF Truthy(a) THEN a ELSE b

\* a or b, of numbers: None and 0 are false
OrNumber(a, b) == IF ~a.is_none /\ a.value # 0 THEN a ELSE b

\* text.strip(chars) for one character
RECURSIVE Strip(_, _)
Strip(text, ch) ==
    IF text = <<>> THEN text
    ELSE IF Head(text) = ch THEN Strip(Tail(text), ch)
    ELSE IF text[Len(text)] = ch THEN Strip(SubSeq(text, 1, Len(text) - 1), ch)
    ELSE text

\* lines 15-21
EommerceAPI_init(url, key, timeout, settings) ==
    LET effective_url == Or(url, settings.ECOMMERCE_API_URL)
    IN IF effective_url.is_none
       THEN Raise("AttributeError", "'NoneType' object has no attribute 'strip'")
       ELSE LET self == [url |-> Strip(effective_url.value, "/"),
                         key |-> Or(key, settings.ECOMMERCE_API_SIGNING_KEY),
                         timeout |->
                             OrNumber(timeout,
                                      IF settings.ECOMMERCE_API_TIMEOUT.is_none
                                      THEN Some(5)
                                      ELSE settings.ECOMMERCE_API_TIMEOUT)]
            IN IF ~(self.url # <<>> /\ Truthy(self.key))
               THEN Raise("ValueError", "Values for both url and key must be set.")
               ELSE Return(self)

\* lines 23-33: jwt.encode(data, self.key), the signed token as its parts
EommerceAPI_get_jwt(self, user) ==
    <<"jwt", [username |-> user.username, email |-> user.email], self.key.value>>

Lexeme(kind, text) == [kind |-> kind, text |-> text]

\* json.dumps of a dict with one key and a text value
JsonDumps(key, value) ==
    <<Lexeme("{", ""), Lexeme("string", key), Lexeme(":", ""),
      Lexeme("string", value), Lexeme("}", "")>>

PyNone == [type |-> "NoneType", value |-> <<>>]

\* response.json(): null, a string, an empty list, an empty object or an
\* object with one string member; anything else is not JSON
JsonLoads(body) ==
    LET kinds == [i \in DOMAIN body |-> body[i].kind]
    IN IF kinds = <<"null">> THEN Return(PyNone)
       ELSE IF kinds = <<"string">>
       THEN Return([type |-> "unicode", value |-> <<body[1].text>>])
       ELSE IF kinds = <<"[", "]">> THEN Return([type |-> "list", value |-> <<>>])
       ELSE IF kinds = <<"{", "}">> THEN Return([type |-> "dict", value |-> <<>>])
       ELSE IF kinds = <<"{", "string", ":", "string", "}">>
       THEN Return([type |-> "dict",
                    value |-> <<<<body[2].text, body[4].text>>>>])
       ELSE Raise("JSONDecodeError", "No JSON object could be decoded")

\* data.get(key): of a dict alone; the items of a dict are its pairs
DictGet(data, key) ==
    IF data.type # "dict"
    THEN Raise("AttributeError", "object has no attribute 'get'")
    ELSE IF \E i \in DOMAIN data.value : data.value[i][1] = key
    THEN Return(data.value[CHOOSE i \in DOMAIN data.value : data.value[i][1] = key][2])
    ELSE Return("None")

\* lines 35-62; server is what requests.post meets: a response, or an
\* exception of requests (no connection, timeout)
create_order(self, user, sku, server) ==
    LET headers == [content_type |-> "application/json",
                    authorization |-> <<"JWT ", EommerceAPI_get_jwt(self, user)>>]
        url == self.url \o <<"/", "o", "r", "d", "e", "r", "s", "/">>
        sent == [method |-> "POST", url |-> url, data |-> JsonDumps("sku", sku),
                 headers |-> headers, timeout |-> self.timeout.value]
        decoded == JsonLoads(server.body)
    IN IF server.raises
       THEN [posts |-> <<sent>>, outcome |-> Raise("RequestException", ""), logged |-> 0]
       ELSE IF decoded.tag = "raise"
       THEN [posts |-> <<sent>>, outcome |-> decoded, logged |-> 1]
       ELSE IF server.status_code = HTTP_200_OK
       THEN [posts |-> <<sent>>, outcome |-> Return(decoded.value), logged |-> 0]
       ELSE LET msg == DictGet(decoded.value, "user_message")
            IN IF msg.tag = "raise"
               THEN [posts |-> <<sent>>, outcome |-> msg, logged |-> 0]
               ELSE [posts |-> <<sent>>, outcome |-> Return(PyNone), logged |-> 1]

\* the arguments and the settings of the constructor
CommerceUrls ==
    {None, Some(<<>>), Some(<<"/">>), Some(<<"/", "/">>),
     Some(<<"/", "e", "/", "/">>), Some(<<"e", "/", "v">>)}

CommerceKeys == {None, Some(<<>>), Some(<<"k">>)}

CommerceSettings ==
    {[ECOMMERCE_API_URL |-> u, ECOMMERCE_API_SIGNING_KEY |-> k,
      ECOMMERCE_API_TIMEOUT |-> t] :
        u \in {None, Some(<<"/">>), Some(<<"s", "/">>)},
        k \in {None, Some(<<"s", "k">>)},
        t \in {NoNumber, Some(7)}}

\* the arguments of create_order
CommerceUsers ==
    {[username |-> "alice", email |-> "alice@example.com"],
     [username |-> "bob", email |-> "bob@example.com"]}

\* the bodies the server answers with
CommerceBodies ==
    {JsonDumps("number", "ORDER-1"),
     JsonDumps("user_message", "no such sku"),
     <<Lexeme("{", ""), Lexeme("}", "")>>,
     <<Lexeme("[", ""), Lexeme("]", "")>>,
     <<Lexeme("null", "")>>,
     <<Lexeme("string", "Bad Gateway")>>,
     <<Lexeme("other", "<html>")>>,
     <<Lexeme("{", ""), Lexeme("string", "user_message"), Lexeme(":", "")>>,
     <<>>}

ServerOutcomes ==
    {[raises |-> FALSE, status_code |-> c, body |-> b] :
        c \in {HTTP_200_OK, 201, HTTP_400_BAD_REQUEST, 500}, b \in CommerceBodies}
    \cup {[raises |-> TRUE, status_code |-> 0, body |-> <<>>]}

notCommerceVars == <<uploadVars, cropVars, stepVars, accountVars, loopVars>>

\* EommerceAPI(url, key, timeout)
Construct ==
    /\ commerce_api.state = "none"
    /\ \E url \in CommerceUrls, key \in CommerceKeys, timeout \in {NoNumber, Some(0), Some(3)},
          settings \in CommerceSettings :
        commerce_api' = [state |-> "constructed", url |-> url, key |-> key,
                         timeout |-> timeout, settings |-> settings,
                         result |-> EommerceAPI_init(url, key, timeout, settings)]
    /\ UNCHANGED <<commerce_call, notCommerceVars>>

\* api.create_order(user, sku)
CreateOrder ==
    /\ commerce_api.state = "constructed"
    /\ commerce_api.result.tag = "return"
    /\ commerce_call.state = "none"
    /\ \E user \in CommerceUsers, sku \in {"SKU-1"}, server \in ServerOutcomes :
        commerce_call' =
            [state |-> "called", user |-> user, sku |-> sku, server |-> server,
             result |-> create_order(commerce_api.result.value, user, sku, server)]
    /\ UNCHANGED <<commerce_api, notCommerceVars>>

\* the object is dropped
CommerceDone ==
    /\ commerce_api.state = "constructed"
    /\ commerce_api' = [state |-> "none"]
    /\ commerce_call' = [state |-> "none"]
    /\ UNCHANGED notCommerceVars

CommerceNext == Construct \/ CreateOrder \/ CommerceDone

CommerceSpec == Init /\ [][CommerceNext]_vars

----------------------------------------------------------------------------
(* What the claims speak of *)

Answered == request # NoRequest

IsPost == Answered /\ request.method = "POST"

\* the requester is logged in and is the user of the URL or a staff user
Authorized ==
    /\ request.user.is_authenticated
    /\ (request.user.username = request.username \/ request.user.is_staff)

\* an authorized POST that carries an uploaded file under 'file'
AuthorizedUpload == IsPost /\ Authorized /\ request.body.file.kind = "file"

Rejected(msg) ==
    response = [status |-> 400,
                data |-> [developer_message |-> msg, user_message |-> "None"]]

Succeeded == response = [status |-> 200, data |-> [status |-> "success"]]

AcceptableSize(f) == f.size >= 100 /\ f.size <= 1048576

\* the table of file types as the claims state it: extensions, MIME types
\* and magic numbers (as bytes; "GIF89a" and "GIF87a" in ASCII)
ClaimTypes == {"jpeg", "png", "gif"}

ClaimExtensions(ft) ==
    CASE ft = "jpeg" -> {<<".", "j", "p", "e", "g">>, <<".", "j", "p", "g">>}
      [] ft = "png" -> {<<".", "p", "n", "g">>}
      [] ft = "gif" -> {<<".", "g", "i", "f">>}

ClaimMimeTypes(ft) ==
    CASE ft = "jpeg" -> {"image/jpeg", "image/pjpeg"}
      [] ft = "png" -> {"image/png"}
      [] ft = "gif" -> {"image/gif"}

ClaimMagic(ft) ==
    CASE ft = "jpeg" -> {<<255, 216>>}
      [] ft = "png" -> {<<137, 80, 78, 71, 13, 10, 26, 10>>}
      [] ft = "gif" -> {<<71, 73, 70, 56, 57, 97>>, <<71, 73, 70, 56, 55, 97>>}

StartsWith(bytes, prefix) ==
    Len(prefix) <= Len(bytes) /\ SubSeq(bytes, 1, Len(prefix)) = prefix

\* the name, compared case-insensitively, ends in an extension of ft
HasExtensionOf(f, ft) == \E ext \in ClaimExtensions(ft) : EndsWith(Lower(f.name), ext)

HasMagicOf(f, ft) == \E m \in ClaimMagic(ft) : StartsWith(f.content.head, m)

\* the files of a user in a storage, and those of one size
FilesOf(st, username) == {n \in DOMAIN st : n[1] = md5hexdigest(username)}

FilesOfSide(st, username, side) ==
    {n \in FilesOf(st, username) : n[3] = ToString(side)}

Sides == {30, 50, 120, 500}

----------------------------------------------------------------------------
(* C1: a POST by a logged-in requester who is neither the user of the URL  *)
(* nor staff is answered 403 whatever the body holds; the owner and a      *)
(* staff user are never answered 403.                                      *)
C1_ForbiddenIffNotOwnerNotStaff ==
    (IsPost /\ request.user.is_authenticated) =>
        (response.status = 403
            <=> (request.user.username # request.username /\ ~request.user.is_staff))

\* bob posts a file that would be accepted to alice's endpoint and gets 403
C1_Witness ==
    /\ IsPost
    /\ request.user.username = "bob"
    /\ request.username = "alice"
    /\ request.body.file.kind = "file"
    /\ AcceptableSize(request.body.file)
    /\ response.status = 403

\* a valid image: a file the validation accepts that holds an image
C2_ValidImage(f) ==
    /\ AcceptableSize(f)
    /\ \A i \in DOMAIN f.name : f.name[i] # "U+00E9"
    /\ \E ft \in ClaimTypes :
        /\ HasExtensionOf(f, ft)
        /\ f.content_type \in ClaimMimeTypes(ft)
        /\ HasMagicOf(f, ft)
    /\ f.content.image # NoImage

C3_RejectedLeavesStorage ==
    (IsPost /\ response.status \in {400, 401, 403}) => storage = before

\* an invalid image is rejected while the user has thumbnails stored
C3_Witness ==
    /\ AuthorizedUpload
    /\ response.status = 400
    /\ "developer_message" \in DOMAIN response.data
    /\ FilesOf(before, request.username) # {}
    /\ storage = before

\* the scaled images store_profile_image is tried with
C4_Thumbnails == {[format |-> "JPEG", size |-> <<side, side>>, pix |-> p] :
                    side \in Sides, p \in {"green", "red"}}

(* C4: store_profile_image overwrites: after it returns the storage holds  *)
(* exactly one file for (username, side), named name_profile_image(        *)
(* username, side), holding the new image, and the returned path is that   *)
(* name; so after any sequence of successful uploads the storage holds     *)
(* exactly four files for the user, all from the latest upload.            *)
C4_StoreOverwrites ==
    /\ \A username \in Usernames, side \in Sides, image_file \in C4_Thumbnails :
        LET stored == store_profile_image(image_file, side, username, storage)
            name == name_profile_image(username, side)
        IN /\ stored.path = name
           /\ FilesOfSide(stored.storage, username, side) = {name}
           /\ stored.storage[name] = image_file
    /\ \A username \in Usernames :
        \/ FilesOf(storage, username) = {}
        \/ /\ FilesOf(storage, username)
                = {name_profile_image(username, side) : side \in Sides}
           /\ \A m, n \in FilesOf(storage, username) : storage[m].pix = storage[n].pix
    /\ (AuthorizedUpload /\ Succeeded) =>
        /\ Cardinality(FilesOf(storage, request.username)) = 4
        /\ \A n \in FilesOf(storage, request.username) :
            storage[n].pix = request.body.file.content.image.pix

\* an upload has replaced the four thumbnails of another image
C4_Witness ==
    /\ AuthorizedUpload
    /\ Succeeded
    /\ Cardinality(FilesOf(before, request.username)) = 4
    /\ \A n \in FilesOf(before, request.username) :
        before[n].pix # request.body.file.content.image.pix

(* C5: a file of more than 1048576 bytes is rejected with 'Maximum file    *)
(* size exceeded.', one of less than 100 bytes with 'Minimum file size not *)
(* met.' (HTTP 400); a file of exactly 100 or exactly 1048576 bytes passes *)
(* the size check.                                                         *)
C5_SizeLimits ==
    AuthorizedUpload =>
        LET size == request.body.file.size
        IN /\ size > 1048576 => Rejected("Maximum file size exceeded.")
           /\ size < 100 => Rejected("Minimum file size not met.")
           /\ size \in {100, 1048576} =>
                /\ ~Rejected("Maximum file size exceeded.")
                /\ ~Rejected("Minimum file size not met.")

\* a file of exactly 1048576 bytes is stored
C5_Witness ==
    /\ AuthorizedUpload
    /\ request.body.file.size = 1048576
    /\ Succeeded

(* C6: a file of acceptable size whose name, compared case-insensitively,  *)
(* does not end in .jpeg, .jpg, .png or .gif is rejected with HTTP 400     *)
(* 'Unsupported file type.'; a name ending in one of these selects exactly *)
(* one type among jpeg, png, gif.                                          *)
C6_UnsupportedFileType ==
    (AuthorizedUpload /\ AcceptableSize(request.body.file)) =>
        LET f == request.body.file
            selected == {ft \in ClaimTypes : HasExtensionOf(f, ft)}
        IN /\ selected = {} => Rejected("Unsupported file type.")
           /\ selected # {} => Cardinality(selected) = 1

(* C7: a file of acceptable size and extension whose Content-Type is not a *)
(* MIME type of the type selected by its extension is rejected with HTTP   *)
(* 400 'Content-Type header does not match data.'.                         *)
C7_ContentTypeMismatch ==
    (AuthorizedUpload /\ AcceptableSize(request.body.file)) =>
        LET f == request.body.file
        IN \A ft \in ClaimTypes :
            (HasExtensionOf(f, ft) /\ f.content_type \notin ClaimMimeTypes(ft))
                => Rejected("Content-Type header does not match data.")

(* C8: a file of acceptable size, extension and Content-Type whose leading *)
(* bytes are not a magic number of the type selected by its extension is   *)
(* rejected with HTTP 400 'File extension does not match data.'; a file    *)
(* whose leading bytes match is accepted and validate_profile_image        *)
(* returns the type.                                                       *)
C8_MagicNumber ==
    (AuthorizedUpload /\ AcceptableSize(request.body.file)) =>
        LET f == request.body.file
        IN \A ft \in ClaimTypes :
            (HasExtensionOf(f, ft) /\ f.content_type \in ClaimMimeTypes(ft)) =>
                /\ ~HasMagicOf(f, ft) => Rejected("File extension does not match data.")
                /\ HasMagicOf(f, ft) =>
                    /\ validate_profile_image(f, f.content_type) = Return(ft)
                    /\ response.status # 400

(* C9: a POST by the owner or by staff whose request carries no uploaded   *)
(* file under 'file' (the key is absent, or its value is plain form data)  *)
(* is answered HTTP 400.                                                   *)
C9_MissingFile ==
    (IsPost /\ Authorized /\ request.body.file.kind \in {"absent", "field"}) =>
        response.status = 400

\* the owner posts 'file' as a form field
C9_Witness ==
    /\ IsPost
    /\ request.user.username = request.username
    /\ request.body.file = [kind |-> "field", value |-> "not a file"]
    /\ response.status = 400

(* C10: an anonymous client gets HTTP 401 from GET and from POST, whatever *)
(* the method, the username and the body are, and nothing is stored.       *)
C10_AnonymousUnauthorized ==
    (Answered /\ ~request.user.is_authenticated) =>
        /\ response = [status |-> 401, data |-> NoData]
        /\ storage = before

\* an anonymous GET is answered 401
C10_Witness ==
    /\ Answered
    /\ request.method = "GET"
    /\ ~request.user.is_authenticated
    /\ response.status = 401

(* C11: whatever happens after post has obtained the uploaded file, the    *)
(* file is closed when the request is done: on a validation failure (400), *)
(* on success (200) and when generating the thumbnails raises.             *)
C11_UploadedFileClosed ==
    AuthorizedUpload => closed

\* generating the thumbnails has raised (the file holds no image) and the
\* file is closed
C11_Witness ==
    /\ AuthorizedUpload
    /\ validate_profile_image(request.body.file, request.body.file.content_type).tag
        = "return"
    /\ request.body.file.content.image = NoImage
    /\ response.status = 500
    /\ closed

(* C17: the upload checks run in a fixed order and the response reports    *)
(* the first one that fails: authentication (401), then owner-or-staff     *)
(* (403), then the presence of 'file' (400), then the file size, then the  *)
(* extension, then the Content-Type, then the magic bytes.                 *)
C17_ChecksInOrder ==
    IsPost =>
        LET f == request.body.file
            selected == {ft \in ClaimTypes : HasExtensionOf(f, ft)}
        IN IF ~request.user.is_authenticated THEN response.status = 401
           ELSE IF ~Authorized THEN response.status = 403
           ELSE IF f.kind # "file" THEN response = [status |-> 400, data |-> NoData]
           ELSE IF f.size > 1048576 THEN Rejected("Maximum file size exceeded.")
           ELSE IF f.size < 100 THEN Rejected("Minimum file size not met.")
           ELSE IF selected = {} THEN Rejected("Unsupported file type.")
           ELSE IF \E ft \in selected : f.content_type \notin ClaimMimeTypes(ft)
           THEN Rejected("Content-Type header does not match data.")
           ELSE IF \E ft \in selected : ~HasMagicOf(f, ft)
           THEN Rejected("File extension does not match data.")
           ELSE response.status # 400

(* C18: generate_profile_images center-crops before scaling: for an image  *)
(* of width w >= 1 and height h >= 1 with w # h, with s = min(w, h) and    *)
(* floor division, the crop box ((w-s)/2, (h-s)/2, (w+s)/2, (h+s)/2) is    *)
(* exactly s wide and s high, lies within [0, w] x [0, h], and its margins *)
(* on opposite sides differ by at most 1 pixel; a square image is not      *)
(* cropped.                                                                *)
C18_CenterCropBox ==
    crop_out # NoCrop =>
        LET w == crop_in.size[1]
            h == crop_in.size[2]
            s == IF w < h THEN w ELSE h
            box == crop_out.box
        IN IF w # h
           THEN /\ box = <<(w - s) \div 2, (h - s) \div 2, (w + s) \div 2, (h + s) \div 2>>
                /\ box[3] - box[1] = s
                /\ box[4] - box[2] = s
                /\ 0 <= box[1] /\ box[3] <= w
                /\ 0 <= box[2] /\ box[4] <= h
                /\ box[1] - (w - box[3]) \in {-1, 0, 1}
                /\ box[2] - (h - box[4]) \in {-1, 0, 1}
                /\ crop_out.image.size = <<s, s>>
           ELSE /\ box = NoBox
                /\ crop_out.image = crop_in

\* an image whose width exceeds its height by an odd number has been cropped
C18_Witness ==
    /\ crop_out # NoCrop
    /\ crop_in.size = <<8, 5>>
    /\ crop_out.box = <<1, 0, 6, 5>>

BothDone == \A w \in Workers : threads[w].pc = "done"

(* C19: when two uploads for the same username run concurrently, with      *)
(* their exists / delete / save steps interleaved in any order, both       *)
(* complete without error and afterwards the storage holds exactly one     *)
(* file per size for that user, named name_profile_image(username, size).  *)
C19_ConcurrentOneFilePerSize ==
    BothDone =>
        \A side \in Sides :
            FilesOfSide(storage, StepUsername, side) =
                {name_profile_image(StepUsername, side)}

(* C20: when two valid uploads for the same username run concurrently,     *)
(* after both have completed the four stored thumbnails of the user all    *)
(* derive from the same one of the two uploaded images.                    *)
C20_ConcurrentSameUpload ==
    BothDone =>
        \E w \in Workers :
            \A side \in Sides :
                /\ StorageExists(storage, name_profile_image(StepUsername, side))
                /\ storage[name_profile_image(StepUsername, side)].pix =
                       StepUpload(w).content.image.pix

ApiIs(method) == api_request # NoRequest /\ api_request.method = method

\* a PATCH of the account by its own user
OwnPatch ==
    /\ ApiIs("PATCH")
    /\ api_request.user.username = "alice"
    /\ api_request.username = "alice"

(* C12: a PATCH on a user's account by any logged-in client other than     *)
(* that user, staff included, is answered 404 and does not modify the      *)
(* account; a PATCH or GET by a logged-in client for a username that does  *)
(* not exist is answered 404 as well.                                      *)
C12_PatchOnlyByOwner ==
    /\ (/\ ApiIs("PATCH")
        /\ api_request.user.is_authenticated
        /\ api_request.user.username # api_request.username)
       => (api_response.status = 404 /\ account = account_before)
    /\ (/\ ApiIs("PATCH") \/ ApiIs("GET")
        /\ api_request.user.is_authenticated
        /\ api_request.username = "does_not_exist")
       => (api_response.status = 404 /\ account = account_before)

\* the staff user has tried to set the gender of alice's account
C12_Witness ==
    /\ ApiIs("PATCH")
    /\ api_request.user.is_staff
    /\ api_request.username = "alice"
    /\ api_request.data = [gender |-> "f"]
    /\ api_response.status = 404
    /\ account.gender = "m"

(* C13: a PATCH that names at least one read-only field (username,         *)
(* date_joined) is answered 400 with one field_errors entry per read-only  *)
(* field named, and no field of that request is applied: an editable       *)
(* field sent in the same PATCH keeps its previous value.                  *)
C13_ReadOnlyFields ==
    (OwnPatch /\ DOMAIN api_request.data \cap {"username", "date_joined"} # {})
       => /\ api_response.status = 400
          /\ DOMAIN api_response.data.field_errors =
                 DOMAIN api_request.data \cap {"username", "date_joined"}
          /\ \A f \in DOMAIN api_response.data.field_errors :
                 /\ api_response.data.field_errors[f].developer_message =
                        "This field is not editable via this API"
                 /\ api_response.data.field_errors[f].user_message =
                        <<"Field '", f, "' cannot be edited.">>
          /\ account = account_before

\* date_joined and gender were sent together and gender is still "m"
C13_Witness ==
    /\ OwnPatch
    /\ api_request.data = [date_joined |-> "will_error", gender |-> "f"]
    /\ api_response.status = 400
    /\ DOMAIN api_response.data.field_errors = {"date_joined"}
    /\ account.gender = "m"

(* C14: an email change is two-step.  After a successful PATCH with a new  *)
(* valid email the account still has (and GET still returns) the old       *)
(* email, the other fields of the same PATCH are updated, and exactly one  *)
(* PendingEmailChange exists for the user; the email changes only by the   *)
(* confirmation request with the activation key of that pending change,    *)
(* after which GET returns the new email.                                  *)
C14_EmailChangeTwoStep ==
    /\ (OwnPatch /\ api_response.status = 204 /\ "email" \in DOMAIN api_request.data)
       => /\ account.email = account_before.email
          /\ "goals" \in DOMAIN api_request.data
                 => account.goals = api_request.data.goals
          /\ "gender" \in DOMAIN api_request.data
                 => account.gender = api_request.data.gender
          /\ Cardinality({pec \in account.pending : pec.user = "alice"}) = 1
          /\ \A pec \in account.pending : pec.new_email = api_request.data.email
    /\ account.email # account_before.email
       => /\ ApiIs("CONFIRM")
          /\ \E pec \in account_before.pending :
                /\ pec.activation_key = api_request.key
                /\ pec.new_email = account.email
    /\ (/\ ApiIs("GET")
        /\ api_response.status = 200
        /\ "email" \in DOMAIN api_response.data)
       => api_response.data.email = account.email

\* the user reads the new email after the change was confirmed
C14_Witness ==
    /\ ApiIs("GET")
    /\ api_request.user.username = "alice"
    /\ api_response.status = 200
    /\ "email" \in DOMAIN api_response.data
    /\ api_response.data.email = <<"newemail", "@", "example.com">>
    /\ api_response.data.goals = "change my email"
    /\ account.pending = {}

(* C15: each successful PATCH of the name appends exactly one entry to     *)
(* old_names, holding the name that was replaced, the reason 'Name change  *)
(* requested through account API by <requester>' and a timestamp; the      *)
(* earlier entries stay, the entries are in the order of the changes, the  *)
(* name and old_names change in no other way, and GET returns the latest   *)
(* name.                                                                   *)
C15_NameChangeMetadata ==
    /\ (OwnPatch /\ api_response.status = 204 /\ "name" \in DOMAIN api_request.data)
       => /\ Len(account.old_names) = Len(account_before.old_names) + 1
          /\ SubSeq(account.old_names, 1, Len(account_before.old_names)) =
                 account_before.old_names
          /\ account.old_names[Len(account.old_names)] =
                 <<account_before.name,
                   <<"Name change requested through account API by ",
                     api_request.user.username>>,
                   "datetime.now">>
          /\ account.name = api_request.data.name
    /\ (account.name # account_before.name \/ account.old_names # account_before.old_names)
       => (OwnPatch /\ api_response.status = 204 /\ "name" \in DOMAIN api_request.data)
    /\ Len(account.old_names) > 0 => account.old_names[1][1] = "Robot Test"
    /\ (/\ ApiIs("GET")
        /\ api_response.status = 200
        /\ "name" \in DOMAIN api_response.data)
       => api_response.data.name = account.name

\* the second change of the name: from Mickey Mouse to Donald Duck
C15_Witness ==
    /\ OwnPatch
    /\ api_response.status = 204
    /\ api_request.data = [name |-> "Donald Duck"]
    /\ Len(account.old_names) = 2
    /\ account.old_names[1][1] = "Robot Test"
    /\ account.old_names[2][1] = "Mickey Mouse"
    /\ account.name = "Donald Duck"

FullFields ==
    {"username", "name", "country", "language", "gender", "year_of_birth",
     "level_of_education", "goals", "mailing_address", "email", "date_joined"}

ShareableFields ==
    {"username", "country", "profile_image", "time_zone", "languages", "bio"}

(* C16: GET gives the owner and a staff user the full account (11 fields)  *)
(* unless they pass view=shared; a different non-staff user, and anyone    *)
(* passing view=shared, receives username and profile_image alone when the *)
(* account's visibility (the user's preference, else the configured        *)
(* default) is private, and the 6 shareable fields when it is all_users;   *)
(* email is never returned to a different non-staff user.                  *)
C16_GetVisibility ==
    (/\ ApiIs("GET")
     /\ api_request.user.is_authenticated
     /\ api_request.username = "alice")
       => LET user == api_request.user
              visibility == IF account.visibility \in {"private", "all_users"}
                            THEN account.visibility
                            ELSE api_request.default_visibility
              fields == DOMAIN api_response.data
          IN /\ api_response.status = 200
             /\ IF (user.username = "alice" \/ user.is_staff)
                    /\ api_request.view # "shared"
                THEN fields = FullFields /\ Cardinality(fields) = 11
                ELSE IF visibility = "private"
                THEN fields = {"username", "profile_image"}
                ELSE fields = ShareableFields /\ Cardinality(fields) = 6
             /\ (user.username # "alice" /\ ~user.is_staff)
                    => fields \cap (FullFields \ ShareableFields) = {}

\* a different user reads the account that its user has made visible to
\* all users, where the default is private
C16_Witness ==
    /\ ApiIs("GET")
    /\ api_request.user.username = "bob"
    /\ api_request.username = "alice"
    /\ api_request.view = "default"
    /\ api_request.default_visibility = "private"
    /\ account.visibility = "all_users"
    /\ DOMAIN api_response.data = ShareableFields

\* the steps of a whole upload, in the order of the claim
C21_AllSteps ==
    <<<<"generate", 30>>, <<"store", 30>>, <<"generate", 50>>, <<"store", 50>>,
      <<"generate", 120>>, <<"store", 120>>, <<"generate", 500>>, <<"store", 500>>>>

\* the storage holds the thumbnail of this side made from the upload of the
\* request
C21_Stored(side) ==
    /\ name_profile_image(request.username, side) \in DOMAIN storage
    /\ storage[name_profile_image(request.username, side)] =
           [format |-> "JPEG", size |-> <<side, side>>,
            pix |-> request.body.file.content.image.pix]

(* C21: an upload answers {"status": "success"} only after all four        *)
(* thumbnails of that upload have been stored, in the order 30, 50, 120,   *)
(* 500, each stored before the next is generated; if generating or storing *)
(* one size raises, no success response is sent and the sizes stored       *)
(* before the failure remain in storage: there is no rollback.             *)
C21_SuccessAfterAllStored ==
    loop.pc # "idle" =>
        /\ Len(loop.log) <= Len(C21_AllSteps)
        /\ loop.log = SubSeq(C21_AllSteps, 1, Len(loop.log))
        /\ response.status = 200 =>
               /\ Succeeded
               /\ loop.log = C21_AllSteps
               /\ \A side \in Sides : C21_Stored(side)
        /\ loop.pc \in {"raised", "failed"} =>
               /\ response.status # 200
               /\ \A side \in Sides :
                      (\E k \in DOMAIN loop.log : loop.log[k] = <<"store", side>>)
                          => C21_Stored(side)
        /\ loop.pc = "failed" => response.status = 500

\* storing the third size of a green upload has raised in storage.save: the
\* two sizes stored before are the new ones where red ones were, and the
\* third is gone
C21_Witness ==
    /\ loop.pc = "failed"
    /\ response.status = 500
    /\ Len(loop.log) = 5
    /\ request.body.file.content.image.pix = "green"
    /\ \A side \in Sides : name_profile_image("alice", side) \in DOMAIN before
    /\ \A side \in {30, 50} :
           /\ C21_Stored(side)
           /\ before[name_profile_image("alice", side)].pix = "red"
    /\ name_profile_image("alice", 120) \notin DOMAIN storage
    /\ storage[name_profile_image("alice", 500)].pix = "red"

\* the url or key that the constructor uses: the argument, else the setting
C22_Effective(argument, setting) ==
    IF ~argument.is_none /\ argument.value # <<>> THEN argument ELSE setting

\* nothing is left of the text when its leading and trailing '/' are taken
C22_EmptyUrl(url) == url.is_none \/ \A i \in DOMAIN url.value : url.value[i] = "/"

\* core is text without its leading and trailing '/'
C22_Stripped(text, core) ==
    \E i \in 1 .. Len(text), j \in 1 .. Len(text) :
        /\ core = SubSeq(text, i, j)
        /\ text[i] # "/" /\ text[j] # "/"
        /\ \A k \in DOMAIN text : (k < i \/ k > j) => text[k] = "/"

\* the bodies that are valid JSON
C22_JsonBodies ==
    {<<[kind |-> "null", text |-> ""]>>,
     <<[kind |-> "string", text |-> "Bad Gateway"]>>,
     <<[kind |-> "[", text |-> ""], [kind |-> "]", text |-> ""]>>,
     <<[kind |-> "{", text |-> ""], [kind |-> "}", text |-> ""]>>}
    \cup {<<[kind |-> "{", text |-> ""], [kind |-> "string", text |-> k],
            [kind |-> ":", text |-> ""], [kind |-> "string", text |-> v],
            [kind |-> "}", text |-> ""]>> :
             k \in {"number", "user_message"}, v \in {"ORDER-1", "no such sku"}}

(* C22: EommerceAPI.create_order(user, sku) sends one POST to              *)
(* '<url>/orders/' (url with leading and trailing '/' stripped) and has    *)
(* exactly three outcomes: a response body that is not valid JSON raises   *)
(* JSONDecodeError whatever the status code; otherwise status 200 returns  *)
(* the decoded body; otherwise an error is logged and None is returned     *)
(* without raising.  Constructing EommerceAPI with a url or key that is    *)
(* empty after defaults and stripping raises ValueError.                   *)
C22_CreateOrderOutcomes ==
    /\ commerce_api.state = "constructed" =>
           LET url == C22_Effective(commerce_api.url,
                                    commerce_api.settings.ECOMMERCE_API_URL)
               key == C22_Effective(commerce_api.key,
                                    commerce_api.settings.ECOMMERCE_API_SIGNING_KEY)
           IN (C22_EmptyUrl(url) \/ key.is_none \/ key.value = <<>>)
                  => /\ commerce_api.result.tag = "raise"
                     /\ commerce_api.result.exc = "ValueError"
    /\ commerce_call.state = "called" =>
           LET url == C22_Effective(commerce_api.url,
                                    commerce_api.settings.ECOMMERCE_API_URL)
               posts == commerce_call.result.posts
               outcome == commerce_call.result.outcome
               server == commerce_call.server
           IN /\ Len(posts) = 1
              /\ posts[1].method = "POST"
              /\ \E n \in 0 .. Len(posts[1].url) :
                     /\ C22_Stripped(url.value, SubSeq(posts[1].url, 1, n))
                     /\ SubSeq(posts[1].url, n + 1, Len(posts[1].url)) =
                            <<"/", "o", "r", "d", "e", "r", "s", "/">>
              /\ ~server.raises =>
                     IF server.body \notin C22_JsonBodies
                     THEN /\ outcome.tag = "raise"
                          /\ outcome.exc = "JSONDecodeError"
                     ELSE IF server.status_code = 200
                     THEN /\ outcome.tag = "return"
                          /\ outcome.value = JsonLoads(server.body).value
                     ELSE /\ outcome.tag = "return"
                          /\ outcome.value.type = "NoneType"
                          /\ commerce_call.result.logged >= 1

====
